---- MODULE Spec2Model ----
(***************************************************************************)
(* A model of dan_graphical_calculator.py: the restricted arithmetic       *)
(* evaluator safe_eval (ast.parse followed by the recursive _eval walk),   *)
(* the calculator window's handlers, the graphing pass and the             *)
(* command-line entry point.                                               *)
(*                                                                         *)
(* Text is a sequence of one-character strings.  Numbers are Python's int  *)
(* and float.  A float is carried as a reduced fraction num/den together   *)
(* with a flag `exact` saying that the fraction IS the IEEE double (a      *)
(* dyadic fraction of small magnitude); when the flag is FALSE the double  *)
(* is only near the fraction.  Whatever the model cannot decide exactly    *)
(* (magnitudes above MaxAbs, a zero test or a repr of an inexact float, a  *)
(* non-integral exponent, a negative float zero) is the outcome kind       *)
(* "range"; the actions are disabled on it, so every outcome the model     *)
(* does produce is the one Python produces.                                *)
(***************************************************************************)
EXTENDS Integers, Sequences, FiniteSets, TLC

\* Largest numerator or denominator the model's arithmetic follows.
MaxAbs == 10000

VARIABLES
    arg_expression,  \* safe_eval's first argument, as the caller has written it
    arg_variables,   \* safe_eval's second argument (None or a dict)
    input,           \* how the caller composed arg_expression (literals and operators)
    pending,         \* the arguments are set and the call is still to be made
    outcome,         \* what the most recent safe_eval call did
    remembered,      \* an earlier call: its arguments and what it did
    expression_var,  \* CalculatorApp.expression_var, the entry field's text
    presses,         \* symbols appended to the field since it was last cleared
    last,            \* the handler that last wrote expression_var
    expr,            \* _evaluate's local expr while it is the last handler run, else empty
    gpc,             \* where _graph_expression is: "idle", "loop", "plot"
    gexpr,           \* _graph_expression's local expr
    gi,              \* the position in xs of the loop's next sample
    ys,              \* _graph_expression's local ys
    samples,         \* the variables of each safe_eval call of this pass, in call order
    shown,           \* messagebox.showerror calls made by this pass
    plotted,         \* the (xs, ys) this pass handed to plt.plot
    args_expression, \* main's args.expression (None when --expression is absent)
    mpc,             \* where main is: "start", "exited"
    stdout,          \* what main printed to stdout
    stderr,          \* what main printed to stderr
    exit_status,     \* the process's exit status
    gui_started      \* main built CalculatorApp and ran its main loop

evalVars == <<arg_expression, arg_variables, input, pending, outcome, remembered>>
guiVars == <<expression_var, presses, last, expr>>
graphVars == <<gpc, gexpr, gi, ys, samples, shown, plotted>>
mainVars == <<args_expression, mpc, stdout, stderr, exit_status, gui_started>>
vars == <<evalVars, guiVars, graphVars, mainVars>>

----------------------------------------------------------------------------
(* Numbers *)

Abs(n) == IF n < 0 THEN -n ELSE n

RECURSIVE Gcd(_, _)
Gcd(a, b) == IF b = 0 THEN a ELSE Gcd(b, a % b)

RECURSIVE IsPow2(_)
IsPow2(n) == IF n = 1 THEN TRUE ELSE IF n % 2 # 0 THEN FALSE ELSE IsPow2(n \div 2)

\* A value no Python number of the modelled range corresponds to.
OutOfRange == [ty |-> "range", num |-> 0, den |-> 1, exact |-> FALSE]

IntVal(n) == IF Abs(n) > MaxAbs THEN OutOfRange
             ELSE [ty |-> "int", num |-> n, den |-> 1, exact |-> TRUE]

BoolVal(b) == [ty |-> "bool", num |-> IF b THEN 1 ELSE 0, den |-> 1, exact |-> TRUE]

StrVal == [ty |-> "str", num |-> 0, den |-> 1, exact |-> TRUE]

NoneVal == [ty |-> "none", num |-> 0, den |-> 1, exact |-> TRUE]

EllipsisVal == [ty |-> "ellipsis", num |-> 0, den |-> 1, exact |-> TRUE]

\* The float nearest n/d (d > 0); ex: the operands were exact doubles.
FloatVal(n, d, ex) ==
    LET g == Gcd(Abs(n), d)
        rn == n \div g
        rd == d \div g
    IN IF Abs(rn) > MaxAbs \/ rd > MaxAbs THEN OutOfRange
       ELSE [ty |-> "float", num |-> rn, den |-> rd, exact |-> ex /\ IsPow2(rd)]

IsNumber(v) == v.ty \in {"int", "float", "bool"}
IntLike(v) == v.ty \in {"int", "bool"}

\* operator.add, operator.sub, operator.mul on int, bool and float operands.
PyAdd(a, b) ==
    IF IntLike(a) /\ IntLike(b) THEN IntVal(a.num + b.num)
    ELSE FloatVal(a.num * b.den + b.num * a.den, a.den * b.den, a.exact /\ b.exact)

PySub(a, b) ==
    IF IntLike(a) /\ IntLike(b) THEN IntVal(a.num - b.num)
    ELSE FloatVal(a.num * b.den - b.num * a.den, a.den * b.den, a.exact /\ b.exact)

PyMul(a, b) ==
    IF IntLike(a) /\ IntLike(b) THEN IntVal(a.num * b.num)
    ELSE IF a.num * b.num = 0 /\ (a.num < 0 \/ b.num < 0) THEN OutOfRange  \* -0.0
    ELSE FloatVal(a.num * b.num, a.den * b.den, a.exact /\ b.exact)

\* operator.neg
PyNeg(a) ==
    IF IntLike(a) THEN IntVal(-a.num)
    ELSE IF a.num = 0 THEN OutOfRange  \* -0.0
    ELSE FloatVal(-a.num, a.den, a.exact)

\* What an operator call yields: a value, or the exception it raises.
Returned(v) == [raised |-> "", v |-> v]
Raises(exc) == [raised |-> exc, v |-> OutOfRange]

\* A division that returns a number for a zero divisor instead of raising.
PyTrueDivZeroReturns(a, b) ==
    IF b.num = 0 THEN Returned(FloatVal(0, 1, TRUE))
    ELSE LET s == IF b.num < 0 THEN -1 ELSE 1
         IN Returned(FloatVal(s * a.num * b.den, s * a.den * b.num, a.exact /\ b.exact))

\* operator.truediv: always a float; a zero divisor raises ZeroDivisionError.
PyTrueDiv(a, b) ==
    IF b.num = 0 THEN (IF b.exact THEN Raises("ZeroDivisionError") ELSE Returned(OutOfRange))
    ELSE IF a.num = 0 /\ b.num < 0 THEN Returned(OutOfRange)  \* -0.0
    ELSE LET s == IF b.num < 0 THEN -1 ELSE 1
         IN Returned(FloatVal(s * a.num * b.den, s * a.den * b.num, a.exact /\ b.exact))

\* acc * b^e, abandoned once it leaves the modelled range.
RECURSIVE PowAcc(_, _, _)
PowAcc(b, e, acc) ==
    IF e = 0 \/ Abs(acc) > MaxAbs THEN acc
    ELSE IF b = 0 THEN 0
    ELSE IF b = 1 THEN acc
    ELSE IF b = -1 THEN (IF e % 2 = 0 THEN acc ELSE -acc)
    ELSE PowAcc(b, e - 1, acc * b)

\* operator.pow for an exponent that is an exact integer.
PyPow(a, b) ==
    IF ~(b.exact /\ b.den = 1) THEN Returned(OutOfRange)
    ELSE LET e == Abs(b.num)
             n == PowAcc(a.num, e, 1)
             d == PowAcc(a.den, e, 1)
         IN IF b.num >= 0
            THEN IF Abs(n) > MaxAbs \/ d > MaxAbs THEN Returned(OutOfRange)
                 ELSE IF IntLike(a) /\ IntLike(b) THEN Returned(IntVal(n))
                 ELSE Returned(FloatVal(n, d, a.exact))
            ELSE IF a.num = 0
                 THEN (IF a.exact THEN Raises("ZeroDivisionError") ELSE Returned(OutOfRange))
                 ELSE IF Abs(n) > MaxAbs \/ d > MaxAbs THEN Returned(OutOfRange)
                 ELSE LET s == IF n < 0 THEN -1 ELSE 1
                      IN Returned(FloatVal(s * d, s * n, a.exact))

\* _ALLOWED_OPERATORS: the node types with an entry, and the function of each.
AllowedOperators == {"Add", "Sub", "Mult", "Div", "Pow", "USub"}

ApplyBinary(op, l, r) ==
    CASE op = "Add"  -> Returned(PyAdd(l, r))
      [] op = "Sub"  -> Returned(PySub(l, r))
      [] op = "Mult" -> Returned(PyMul(l, r))
      [] op = "Div"  -> PyTrueDiv(l, r)
      [] op = "Pow"  -> PyPow(l, r)
      [] OTHER       -> Raises("TypeError")  \* operator.neg(l, r)

ApplyUnary(op, v) ==
    CASE op = "USub" -> Returned(PyNeg(v))
      [] OTHER       -> Raises("TypeError")  \* a binary function called with one operand
----------------------------------------------------------------------------
(* ast.parse(expression, mode="eval"): the tokenizer.                       *)
(* Radix prefixes, exponents, imaginary suffixes, digit separators and      *)
(* keyword operators need a letter or "_" after a digit or a keyword; the   *)
(* inputs of the specifications below never hold one.                       *)

Digits == {"0", "1", "2", "3", "4", "5", "6", "7", "8", "9"}

Letters == {"a", "b", "c", "d", "e", "f", "g", "h", "i", "j", "k", "l", "m",
            "n", "o", "p", "q", "r", "s", "t", "u", "v", "w", "x", "y", "z",
            "A", "B", "C", "D", "E", "F", "G", "H", "I", "J", "K", "L", "M",
            "N", "O", "P", "Q", "R", "S", "T", "U", "V", "W", "X", "Y", "Z", "_"}

IdChars == Letters \cup Digits

OpChars == {"+", "-", "*", "/", "^", "(", ")", "[", "]", ",", ".", "<"}

DigitValue(c) ==
    CASE c = "0" -> 0 [] c = "1" -> 1 [] c = "2" -> 2 [] c = "3" -> 3 [] c = "4" -> 4
      [] c = "5" -> 5 [] c = "6" -> 6 [] c = "7" -> 7 [] c = "8" -> 8 [] c = "9" -> 9

\* The first index from i on that holds no character of set cs.
RECURSIVE RunEnd(_, _, _)
RunEnd(s, i, cs) == IF i <= Len(s) /\ s[i] \in cs THEN RunEnd(s, i + 1, cs) ELSE i

\* The number written by the digits s[i..j-1], or MaxAbs + 1 once it is larger.
RECURSIVE DigitsNumber(_, _, _, _)
DigitsNumber(s, i, j, acc) ==
    IF i >= j \/ acc > MaxAbs THEN acc
    ELSE DigitsNumber(s, i + 1, j, acc * 10 + DigitValue(s[i]))

RECURSIVE Pow10(_)
Pow10(n) == IF n = 0 THEN 1 ELSE LET p == Pow10(n - 1) IN IF p > MaxAbs THEN p ELSE 10 * p

Token(t, v, s) == [t |-> t, v |-> v, s |-> s]
ErrorToken == Token("error", OutOfRange, <<>>)

\* The float literal with integer digits s[i..j-1] and fraction digits s[j+1..k-1].
FloatLiteral(s, i, j, k) ==
    LET whole == DigitsNumber(s, i, j, 0)
        frac  == DigitsNumber(s, j + 1, k, 0)
        scale == Pow10(k - j - 1)
    IN IF whole > MaxAbs \/ frac > MaxAbs \/ scale > MaxAbs THEN OutOfRange
       ELSE FloatVal(whole * scale + frac, scale, TRUE)

\* The integer literal s[i..j-1]; leading zeros are permitted only in a zero.
IntLiteralOk(s, i, j) ==
    j - i = 1 \/ s[i] # "0" \/ \A n \in i..(j - 1) : s[n] = "0"

\* The token that starts at s[i] (not a blank) and the index after it.
NextToken(s, i) ==
    LET c == s[i] IN
    IF c \in Digits THEN
        LET j == RunEnd(s, i, Digits) IN
        IF j <= Len(s) /\ s[j] = "." THEN
            LET k == RunEnd(s, j + 1, Digits) IN
            IF k <= Len(s) /\ s[k] \in Letters THEN <<ErrorToken, k>>
            ELSE <<Token("num", FloatLiteral(s, i, j, k), <<>>), k>>
        ELSE IF j <= Len(s) /\ s[j] \in Letters THEN <<ErrorToken, j>>
        ELSE IF ~IntLiteralOk(s, i, j) THEN <<ErrorToken, j>>
        ELSE <<Token("num", IntVal(DigitsNumber(s, i, j, 0)), <<>>), j>>
    ELSE IF c = "." /\ i < Len(s) /\ s[i + 1] \in Digits THEN
        LET k == RunEnd(s, i + 1, Digits) IN
        IF k <= Len(s) /\ s[k] \in Letters THEN <<ErrorToken, k>>
        ELSE <<Token("num", FloatLiteral(s, i, i, k), <<>>), k>>
    ELSE IF c = "." /\ i + 2 <= Len(s) /\ s[i + 1] = "." /\ s[i + 2] = "." THEN
        <<Token("num", EllipsisVal, <<>>), i + 3>>
    ELSE IF c \in Letters THEN
        LET j == RunEnd(s, i, IdChars) IN <<Token("name", OutOfRange, SubSeq(s, i, j - 1)), j>>
    ELSE IF c = "'" THEN
        LET j == RunEnd(s, i + 1, (IdChars \cup OpChars \cup {" ", ";"})) IN
        IF j <= Len(s) /\ s[j] = "'"
        THEN <<Token("str", StrVal, SubSeq(s, i + 1, j - 1)), j + 1>>
        ELSE <<ErrorToken, j>>
    ELSE IF c \in {"*", "/"} /\ i < Len(s) /\ s[i + 1] = c THEN
        <<Token("op", OutOfRange, <<c, c>>), i + 2>>
    ELSE IF c \in OpChars THEN <<Token("op", OutOfRange, <<c>>), i + 1>>
    ELSE <<ErrorToken, i + 1>>

RECURSIVE Tokenize(_, _)
Tokenize(s, i) ==
    IF i > Len(s) THEN <<>>
    ELSE IF s[i] = " " THEN Tokenize(s, i + 1)
    ELSE LET nt == NextToken(s, i)
         IN IF nt[1].t = "error" THEN <<ErrorToken>> ELSE <<nt[1]>> \o Tokenize(s, nt[2])
----------------------------------------------------------------------------
(* ast.parse(expression, mode="eval"): the expression grammar, from the     *)
(* comparison level down (comparison, ^, + -, * / //, unary + -, **,        *)
(* call and attribute trailers, atoms).                                     *)

Constant(v) == [k |-> "Constant", value |-> v]
Name(id) == [k |-> "Name", id |-> id]
UnaryOp(op, operand) == [k |-> "UnaryOp", op |-> op, operand |-> operand]
BinOp(op, left, right) == [k |-> "BinOp", op |-> op, left |-> left, right |-> right]
\* Call, Attribute, List, Tuple, Compare: the node types _eval has no case for.
OtherNode(kind, children) == [k |-> kind, children |-> children]

Parsed(node, pos) == [ok |-> TRUE, node |-> node, pos |-> pos]
NoParse == [ok |-> FALSE, node |-> <<>>, pos |-> 0]

IsOp(ts, i, o) == i <= Len(ts) /\ ts[i].t = "op" /\ ts[i].s = o

\* The binary operators of each left-associative level, loosest first.
XorLevel == 1
ArithLevel == 2
TermLevel == 3
FactorLevel == 4

\* A grammar in which + and - bind tighter than * and /.
LevelOpsAdditiveTighter(level) ==
    CASE level = XorLevel   -> {<<"^">>}
      [] level = ArithLevel -> {<<"*">>, <<"/">>, <<"/", "/">>}
      [] level = TermLevel  -> {<<"+">>, <<"-">>}

LevelOps(level) ==
    CASE level = XorLevel   -> {<<"^">>}
      [] level = ArithLevel -> {<<"+">>, <<"-">>}
      [] level = TermLevel  -> {<<"*">>, <<"/">>, <<"/", "/">>}

\* A grammar in which the caret is the power operator.
BinOpNameCaretIsPow(o) ==
    CASE o = <<"+">> -> "Add" [] o = <<"-">> -> "Sub" [] o = <<"*">> -> "Mult"
      [] o = <<"/">> -> "Div" [] o = <<"/", "/">> -> "FloorDiv" [] o = <<"^">> -> "Pow"

BinOpName(o) ==
    CASE o = <<"+">> -> "Add" [] o = <<"-">> -> "Sub" [] o = <<"*">> -> "Mult"
      [] o = <<"/">> -> "Div" [] o = <<"/", "/">> -> "FloorDiv" [] o = <<"^">> -> "BitXor"

\* One operator holds the grammar's rules; the definitions below name them.
RECURSIVE ParseRule(_, _, _, _, _)

\* expr (',' expr)* [','] up to the closing token: the elements and the index after it.
ParseElts(ts, i, close, acc) == ParseRule("elts", ts, i, close, acc)
\* atom: a number, a name, a string, True/False/None, (...) or [...]
ParseAtom(ts, i) == ParseRule("atom", ts, i, <<>>, <<>>)
\* primary: atom followed by calls f(...), attributes a.b and subscripts a[...]
ParseTrailers(ts, node, i) == ParseRule("trailers", ts, i, node, <<>>)
\* power: primary ['**' factor], so a ** b ** c is a ** (b ** c)
ParsePower(ts, i) == ParseRule("power", ts, i, <<>>, <<>>)
\* factor: ('+' | '-') factor | power
ParseFactor(ts, i) == ParseRule("factor", ts, i, <<>>, <<>>)
\* A left-associative level: operand (op operand)*, the operands of the next level.
ParseLevel(level, ts, i) == ParseRule("level", ts, i, level, <<>>)
ParseLevelRest(level, ts, left, i) == ParseRule("level_rest", ts, i, level, left)
\* comparison: a < b < c is one Compare node
ParseCompareRest(ts, left, comps, i) == ParseRule("compare_rest", ts, i, left, comps)
ParseExpr(ts, i) == ParseRule("expr", ts, i, <<>>, <<>>)

ParseRule(rule, ts, i, p, q) ==
  CASE rule = "elts" ->
    IF IsOp(ts, i, p) THEN Parsed(q, i + 1)
    ELSE LET e == ParseExpr(ts, i)
         IN IF ~e.ok THEN NoParse
            ELSE IF IsOp(ts, e.pos, <<",">>) THEN ParseElts(ts, e.pos + 1, p, Append(q, e.node))
            ELSE IF IsOp(ts, e.pos, p) THEN Parsed(Append(q, e.node), e.pos + 1)
            ELSE NoParse
  [] rule = "atom" ->
    IF i > Len(ts) THEN NoParse
    ELSE LET tok == ts[i] IN
      CASE tok.t = "num" -> Parsed(Constant(tok.v), i + 1)
        [] tok.t = "str" ->
             IF i < Len(ts) /\ ts[i + 1].t = "str" THEN ParseAtom(ts, i + 1)  \* 'a' 'b'
             ELSE Parsed(Constant(StrVal), i + 1)
        [] tok.t = "name" ->
             IF tok.s = <<"T", "r", "u", "e">> THEN Parsed(Constant(BoolVal(TRUE)), i + 1)
             ELSE IF tok.s = <<"F", "a", "l", "s", "e">> THEN Parsed(Constant(BoolVal(FALSE)), i + 1)
             ELSE IF tok.s = <<"N", "o", "n", "e">> THEN Parsed(Constant(NoneVal), i + 1)
             ELSE Parsed(Name(tok.s), i + 1)
        [] tok.t = "op" /\ tok.s = <<"(">> ->
             IF IsOp(ts, i + 1, <<")">>) THEN Parsed(OtherNode("Tuple", <<>>), i + 2)
             ELSE LET e == ParseExpr(ts, i + 1)
                  IN IF ~e.ok THEN NoParse
                     ELSE IF IsOp(ts, e.pos, <<")">>) THEN Parsed(e.node, e.pos + 1)
                     ELSE IF IsOp(ts, e.pos, <<",">>) THEN
                         LET r == ParseElts(ts, e.pos + 1, <<")">>, <<e.node>>)
                         IN IF r.ok THEN Parsed(OtherNode("Tuple", r.node), r.pos) ELSE NoParse
                     ELSE NoParse
        [] tok.t = "op" /\ tok.s = <<"[">> ->
             LET r == ParseElts(ts, i + 1, <<"]">>, <<>>)
             IN IF r.ok THEN Parsed(OtherNode("List", r.node), r.pos) ELSE NoParse
        [] OTHER -> NoParse
  [] rule = "trailers" ->
    IF IsOp(ts, i, <<"(">>) THEN
        LET r == ParseElts(ts, i + 1, <<")">>, <<>>)
        IN IF r.ok THEN ParseTrailers(ts, OtherNode("Call", <<p>> \o r.node), r.pos)
           ELSE NoParse
    ELSE IF IsOp(ts, i, <<".">>) THEN
        IF i < Len(ts) /\ ts[i + 1].t = "name"
           /\ ts[i + 1].s \notin {<<"T", "r", "u", "e">>, <<"F", "a", "l", "s", "e">>, <<"N", "o", "n", "e">>}
        THEN ParseTrailers(ts, OtherNode("Attribute", <<p>>), i + 2)
        ELSE NoParse
    ELSE IF IsOp(ts, i, <<"[">>) THEN
        LET r == ParseElts(ts, i + 1, <<"]">>, <<>>)
        IN IF r.ok /\ r.node # <<>>
           THEN ParseTrailers(ts, OtherNode("Subscript", <<p>> \o r.node), r.pos)
           ELSE NoParse
    ELSE Parsed(p, i)
  [] rule = "power" ->
    LET a == ParseAtom(ts, i)
        b == IF a.ok THEN ParseTrailers(ts, a.node, a.pos) ELSE NoParse
    IN IF ~b.ok THEN NoParse
       ELSE IF IsOp(ts, b.pos, <<"*", "*">>) THEN
           LET e == ParseFactor(ts, b.pos + 1)
           IN IF e.ok THEN Parsed(BinOp("Pow", b.node, e.node), e.pos) ELSE NoParse
       ELSE b
  [] rule = "factor" ->
    IF IsOp(ts, i, <<"-">>) \/ IsOp(ts, i, <<"+">>) THEN
        LET e == ParseFactor(ts, i + 1)
        IN IF e.ok
           THEN Parsed(UnaryOp(IF ts[i].s = <<"-">> THEN "USub" ELSE "UAdd", e.node), e.pos)
           ELSE NoParse
    ELSE ParsePower(ts, i)
  [] rule = "level_rest" ->
    IF i <= Len(ts) /\ ts[i].t = "op" /\ ts[i].s \in LevelOps(p) THEN
        LET r == ParseLevel(p + 1, ts, i + 1)
        IN IF r.ok THEN ParseLevelRest(p, ts, BinOp(BinOpName(ts[i].s), q, r.node), r.pos)
           ELSE NoParse
    ELSE Parsed(q, i)
  [] rule = "level" ->
    IF p = FactorLevel THEN ParseFactor(ts, i)
    ELSE LET l == ParseLevel(p + 1, ts, i)
         IN IF l.ok THEN ParseLevelRest(p, ts, l.node, l.pos) ELSE NoParse
  [] rule = "compare_rest" ->
    IF IsOp(ts, i, <<"<">>) THEN
        LET r == ParseLevel(XorLevel, ts, i + 1)
        IN IF r.ok THEN ParseCompareRest(ts, p, Append(q, r.node), r.pos) ELSE NoParse
    ELSE IF q = <<>> THEN Parsed(p, i)
    ELSE Parsed(OtherNode("Compare", <<p>> \o q), i)
  [] rule = "expr" ->
    LET l == ParseLevel(XorLevel, ts, i)
    IN IF l.ok THEN ParseCompareRest(ts, l.node, <<>>, l.pos) ELSE NoParse

\* ast.parse(expression, mode="eval").body, or no tree when it raises SyntaxError.
Parse(expression) ==
    IF expression # <<>> /\ expression[1] = " " THEN NoParse  \* IndentationError
    ELSE LET ts == Tokenize(expression, 1)
             e  == ParseExpr(ts, 1)
         IN IF ts # <<>> /\ ts[Len(ts)].t = "error" THEN NoParse
            ELSE IF ~e.ok THEN NoParse
            ELSE IF e.pos > Len(ts) THEN e
            ELSE IF IsOp(ts, e.pos, <<",">>) THEN
                IF e.pos = Len(ts) THEN Parsed(OtherNode("Tuple", <<e.node>>), e.pos + 1)
                ELSE LET r == ParseElts(ts \o <<Token("op", OutOfRange, <<";">>)>>,
                                        e.pos + 1, <<";">>, <<e.node>>)
                     IN IF r.ok THEN Parsed(OtherNode("Tuple", r.node), r.pos) ELSE NoParse
            ELSE NoParse
----------------------------------------------------------------------------
(* safe_eval and its inner _eval.  An outcome is what a call does: it       *)
(* returns a value or raises; trace lists the nodes _eval was called on, in *)
(* call order.                                                              *)

Value(v, trace) ==
    [kind |-> IF v.ty = "range" THEN "range" ELSE "value", val |-> v,
     exc |-> "", msg |-> "", arg |-> <<>>, trace |-> trace]

Failure(exc, msg, arg, trace) ==
    [kind |-> "error", val |-> OutOfRange, exc |-> exc, msg |-> msg, arg |-> arg, trace |-> trace]

\* The outcome with the calls of `before` made ahead of its own.
After(before, o) == [o EXCEPT !.trace = before \o o.trace]

Result(r, trace) ==
    IF r.raised # "" THEN Failure(r.raised, "", <<>>, trace) ELSE Value(r.v, trace)

\* How a node shows in a trace.
Visit(node) ==
    CASE node.k = "Name" -> node.id
      [] node.k \in {"BinOp", "UnaryOp"} -> <<node.k, node.op>>
      [] OTHER -> <<node.k>>

\* variables = variables or {}
NoVariables == [given |-> FALSE, map |-> <<>>]
Given(map) == [given |-> TRUE, map |-> map]
VariablesOrEmpty(variables) == IF variables.given THEN variables.map ELSE <<>>

\* A lookup that takes a missing name to be zero.
EvalNameDefaultsToZero(id, variables) ==
    IF id \in DOMAIN variables THEN Value(variables[id], <<>>) ELSE Value(IntVal(0), <<>>)

\* if node.id in variables: return variables[node.id]; else raise ValueError
EvalName(id, variables) ==
    IF id \in DOMAIN variables THEN Value(variables[id], <<>>)
    ELSE Failure("ValueError", "UndefinedVariable", id, <<>>)

\* An evaluation of the operands that takes the right one first.
EvalOperandsRightFirst(op, left, right) ==
    IF right.kind # "value" THEN right
    ELSE IF left.kind # "value" THEN After(right.trace, left)
    ELSE Result(ApplyBinary(op, left.val, right.val), right.trace \o left.trace)

\* left = _eval(node.left); right = _eval(node.right); return op(left, right)
\* (left and right are the operands' outcomes; right is used only once left returned)
EvalOperands(op, left, right) ==
    IF left.kind # "value" THEN left
    ELSE IF right.kind # "value" THEN After(left.trace, right)
    ELSE Result(ApplyBinary(op, left.val, right.val), left.trace \o right.trace)

\* isinstance(node, ast.Constant) and isinstance(node.value, (int, float))
IsIntOrFloat(v) == v.ty \in {"int", "float", "bool", "range"}

RECURSIVE Eval(_, _)
Eval(node, variables) ==
    After(<<Visit(node)>>,
      IF node.k = "BinOp" THEN
          IF node.op \in AllowedOperators
          THEN EvalOperands(node.op, Eval(node.left, variables), Eval(node.right, variables))
          ELSE Failure("ValueError", "OperatorNotAllowed", <<node.op>>, <<>>)
      ELSE IF node.k = "UnaryOp" THEN
          IF node.op \in AllowedOperators
          THEN LET operand == Eval(node.operand, variables)
               IN IF operand.kind # "value" THEN operand
                  ELSE Result(ApplyUnary(node.op, operand.val), operand.trace)
          ELSE Failure("ValueError", "UnaryOperatorNotAllowed", <<node.op>>, <<>>)
      ELSE IF node.k = "Name" THEN EvalName(node.id, variables)
      ELSE IF node.k = "Constant" /\ IsIntOrFloat(node.value) THEN Value(node.value, <<>>)
      ELSE Failure("ValueError", "UnsupportedElement", <<node.k>>, <<>>))

\* An evaluator in which a failure sticks: once a call has failed, later calls
\* report that failure again.
SafeEvalFailureSticks(expression, variables) ==
    IF outcome.kind = "error" THEN outcome
    ELSE LET tree == Parse(expression)
         IN IF tree.ok THEN Eval(tree.node, VariablesOrEmpty(variables))
            ELSE Failure("SyntaxError", "", <<>>, <<>>)

\* tree = ast.parse(expression, mode="eval"); return _eval(tree.body)
SafeEval(expression, variables) ==
    LET tree == Parse(expression)
    IN IF ~tree.ok THEN Failure("SyntaxError", "", <<>>, <<>>)
       ELSE Eval(tree.node, VariablesOrEmpty(variables))
----------------------------------------------------------------------------
(* str(result), as _evaluate writes it back into the entry field. *)

DigitChar(d) ==
    CASE d = 0 -> "0" [] d = 1 -> "1" [] d = 2 -> "2" [] d = 3 -> "3" [] d = 4 -> "4"
      [] d = 5 -> "5" [] d = 6 -> "6" [] d = 7 -> "7" [] d = 8 -> "8" [] d = 9 -> "9"

\* The decimal digits of n >= 0.
RECURSIVE NatDigits(_)
NatDigits(n) == IF n < 10 THEN <<DigitChar(n)>> ELSE Append(NatDigits(n \div 10), DigitChar(n % 10))

\* The digits of rem/den (rem < den, den a power of two) after the point.
RECURSIVE FractionDigits(_, _)
FractionDigits(rem, den) ==
    IF rem = 0 THEN <<>>
    ELSE <<DigitChar((rem * 10) \div den)>> \o FractionDigits((rem * 10) % den, den)

Text(s) == [ok |-> TRUE, s |-> s]
NoText == [ok |-> FALSE, s |-> <<>>]

\* repr of an inexact double, and the exponent form used below 1e-4, are not modelled.
Str(v) ==
    LET sign == IF v.num < 0 THEN <<"-">> ELSE <<>>
        n == Abs(v.num)
    IN CASE v.ty = "int" -> Text(sign \o NatDigits(n))
         [] v.ty = "bool" -> Text(IF v.num = 1 THEN <<"T", "r", "u", "e">>
                                  ELSE <<"F", "a", "l", "s", "e">>)
         [] v.ty = "float" ->
              IF ~v.exact \/ (n # 0 /\ n * 10000 < v.den) THEN NoText
              ELSE LET frac == FractionDigits(n % v.den, v.den)
                   IN Text(sign \o NatDigits(n \div v.den) \o <<".">>
                           \o (IF frac = <<>> THEN <<"0">> ELSE frac))
         [] OTHER -> NoText
----------------------------------------------------------------------------
(* Calls of safe_eval.  The caller writes the expression and picks the      *)
(* variables; SafeEvalCall is one call.                                     *)

NotCalled ==
    [kind |-> "none", val |-> OutOfRange, exc |-> "", msg |-> "", arg |-> <<>>, trace |-> <<>>]

NothingRemembered ==
    [set |-> FALSE, expression |-> <<>>, variables |-> NoVariables,
     outcome |-> NotCalled, interleaved |-> FALSE]

\* The literals and operators the composed inputs are written with.
Literals == {0, 2, 3, 4, 10}
ArithOps == {"Add", "Sub", "Mult", "Div"}
WrittenOps == ArithOps \cup {"Pow", "BitXor"}

OpText(op) ==
    CASE op = "Add" -> <<"+">> [] op = "Sub" -> <<"-">> [] op = "Mult" -> <<"*">>
      [] op = "Div" -> <<"/">> [] op = "Pow" -> <<"*", "*">> [] op = "BitXor" -> <<"^">>

Composed(form, a, op1, b, op2, c) ==
    [form |-> form, a |-> a, op1 |-> op1, b |-> b, op2 |-> op2, c |-> c]

\* The text of a composed input.
Render(in) ==
    LET a == NatDigits(in.a)
        b == NatDigits(in.b)
        c == NatDigits(in.c)
    IN CASE in.form = "flat2" -> a \o OpText(in.op1) \o b
         [] in.form = "neg"   -> <<"-">> \o a \o OpText(in.op1) \o b
         [] in.form = "flat3" -> a \o OpText(in.op1) \o b \o OpText(in.op2) \o c
         [] in.form = "left"  -> <<"(">> \o a \o OpText(in.op1) \o b \o <<")">> \o OpText(in.op2) \o c
         [] in.form = "right" -> a \o OpText(in.op1) \o <<"(">> \o b \o OpText(in.op2) \o c \o <<")">>

ComposedInputs ==
    {Composed(f, a, op1, b, "Add", 0) : f \in {"flat2", "neg"}, a \in Literals, op1 \in WrittenOps, b \in Literals}
    \cup {Composed("flat3", a, op1, b, op2, c) :
            a \in Literals, op1 \in WrittenOps, b \in Literals, op2 \in WrittenOps, c \in Literals}
    \cup {Composed(f, a, op1, b, op2, c) :
            f \in {"left", "right"}, a \in Literals, op1 \in ArithOps, b \in Literals,
            op2 \in ArithOps, c \in Literals}

\* An input written out as text.
Written == Composed("text", 0, "Add", 0, "Add", 0)

WrittenTexts == {
    <<>>,  \* (the empty string)
    <<"x">>,  \* x
    <<"x", "+", "1">>,  \* x+1
    <<"X", "+", "1">>,  \* X+1
    <<"a", "+", "b">>,  \* a+b
    <<"a", "-", "b">>,  \* a-b
    <<"a", "/", "b">>,  \* a/b
    <<"a", "*", "*", "b">>,  \* a**b
    <<"(", "a", "+", "b", ")", "*", "x">>,  \* (a+b)*x
    <<"a", "+", "b", "+", "x">>,  \* a+b+x
    <<"a", "*", "(", "b", "+", "x", ")">>,  \* a*(b+x)
    <<"1", "/", "x">>,  \* 1/x
    <<"x", "/", "0">>,  \* x/0
    <<"1", "/", "0", "+", "a">>,  \* 1/0+a
    <<"a", "+", "1", "/", "0">>,  \* a+1/0
    <<"-", "x">>,  \* -x
    <<"-", "-", "x">>,  \* --x
    <<"+", "x">>,  \* +x
    <<"T", "r", "u", "e">>,  \* True
    <<"T", "r", "u", "e", "+", "1">>,  \* True+1
    <<"N", "o", "n", "e">>,  \* None
    <<"'", "a", "'">>,  \* 'a'
    <<"'", "a", "'", "+", "1">>,  \* 'a'+1
    <<"s", "i", "n", "(", "1", ")">>,  \* sin(1)
    <<"s", "i", "n", "(", "x", ")">>,  \* sin(x)
    <<"s", "i", "n", "(", "1", ")", "+", "a">>,  \* sin(1)+a
    <<"a", "+", "s", "i", "n", "(", "1", ")">>,  \* a+sin(1)
    <<"[", "1", ",", "2", ",", "3", "]">>,  \* [1,2,3]
    <<"x", ".", "y">>,  \* x.y
    <<"1", "<", "2">>,  \* 1<2
    <<"_", "_", "i", "m", "p", "o", "r", "t", "_", "_", "(", "'", "o", "s", "'", ")">>,  \* __import__('os')
    <<"1", ";", " ", "2">>,  \* 1; 2
    <<"1", "/", "/", "2">>,  \* 1//2
    <<"2", "^", "3">>,  \* 2^3
    <<"a", "^", "b">>,  \* a^b
    <<"-", "2", "*", "*", "2">>,  \* -2**2
    <<"2", "*", "*", "-", "1">>,  \* 2**-1
    <<"0", "*", "*", "-", "1">>,  \* 0**-1
    <<"1", ".", "5", "+", "x">>,  \* 1.5+x
    <<"(", "1">>,  \* (1
    <<"0", "1">>,  \* 01
    <<"1", " ", "2">>,  \* 1 2
    <<" ", "1">>,  \*  1
    <<"1", ",", "2">>,  \* 1,2
    <<"(", ")">>,  \* ()
    <<"1", "/", "(", "2", "-", "2", ")">>,  \* 1/(2-2)
    <<"1", "/", "0">>,  \* 1/0
    <<"1", ".", "0", "/", "0">>   \* 1.0/0
    }

X == <<"x">>

\* The dicts callers pass as variables (None: the argument is omitted).
Environments ==
    {NoVariables, Given(<<>>),
     Given(X :> FloatVal(4, 1, TRUE)),
     Given(X :> IntVal(0)),
     Given(<<"X">> :> IntVal(7)),
     Given(<<"a">> :> IntVal(1)),
     Given(<<"b">> :> IntVal(2)),
     Given((<<"a">> :> IntVal(1)) @@ (<<"b">> :> IntVal(0)) @@ (X :> FloatVal(1, 2, TRUE)))}

GuiIdle ==
    /\ expression_var = <<>>
    /\ presses = 0
    /\ last = "__init__"
    /\ expr = <<>>

GraphIdle ==
    /\ gpc = "idle"
    /\ gexpr = <<>>
    /\ gi = 1
    /\ ys = <<>>
    /\ samples = <<>>
    /\ shown = 0
    /\ plotted = <<>>

MainIdle ==
    /\ args_expression = [given |-> FALSE, text |-> <<>>]
    /\ mpc = "start"
    /\ stdout = <<>>
    /\ stderr = <<>>
    /\ exit_status = 0
    /\ gui_started = FALSE

EvalIdle ==
    /\ arg_expression = <<>>
    /\ arg_variables = NoVariables
    /\ input = Written
    /\ pending = FALSE
    /\ outcome = NotCalled
    /\ remembered = NothingRemembered

\* A caller about to call safe_eval on one of the inputs.
EvalInit ==
    /\ \/ /\ input \in ComposedInputs
          /\ arg_expression = Render(input)
          /\ arg_variables = NoVariables
       \/ /\ input = Written
          /\ arg_expression \in WrittenTexts
          /\ arg_variables \in Environments
    /\ pending = TRUE
    /\ outcome = NotCalled
    /\ remembered = NothingRemembered
    /\ GuiIdle /\ GraphIdle /\ MainIdle

\* The call ends with o, a value or a failure the model follows.
Returns(o) ==
    /\ o.kind # "range"
    /\ outcome' = o

\* result = safe_eval(expression, variables)
SafeEvalCall ==
    /\ pending
    /\ Returns(SafeEval(arg_expression, arg_variables))
    /\ pending' = FALSE
    /\ remembered' =
         IF remembered.set
            /\ ~(remembered.expression = arg_expression /\ remembered.variables = arg_variables)
         THEN [remembered EXCEPT !.interleaved = TRUE]
         ELSE remembered
    /\ UNCHANGED <<arg_expression, arg_variables, input, guiVars, graphVars, mainVars>>

EvalNext == SafeEvalCall

SpecEval == EvalInit /\ [][EvalNext]_vars
----------------------------------------------------------------------------
(* Properties of safe_eval, checked under SpecEval. *)

Called == ~pending /\ outcome.kind # "none"
Tree == Parse(arg_expression)
Env == VariablesOrEmpty(arg_variables)

\* Every node of a tree, parents first.
RECURSIVE NodeList(_)
RECURSIVE NodeLists(_, _)
NodeLists(children, i) ==
    IF i > Len(children) THEN <<>> ELSE NodeList(children[i]) \o NodeLists(children, i + 1)
NodeList(n) ==
    <<n>> \o
    CASE n.k = "BinOp" -> NodeList(n.left) \o NodeList(n.right)
      [] n.k = "UnaryOp" -> NodeList(n.operand)
      [] n.k \in {"Constant", "Name"} -> <<>>
      [] OTHER -> NodeLists(n.children, 1)

AllNodes(P(_)) == Tree.ok => \A i \in 1..Len(NodeList(Tree.node)) : P(NodeList(Tree.node)[i])

\* The four permitted kinds: numeric literal, variable reference, unary negation,
\* binary operation with Add, Sub, Mul, Div or Pow.
PermittedNode(n) ==
    \/ n.k = "Constant" /\ n.value.ty \in {"int", "float", "range"}
    \/ n.k = "Name"
    \/ n.k = "UnaryOp" /\ n.op = "USub"
    \/ n.k = "BinOp" /\ n.op \in {"Add", "Sub", "Mult", "Div", "Pow"}

\* C1: safe_eval returns a value only when every node of the parsed tree is one of
\* the four permitted kinds; any other node kind or operator makes the call fail.
C1_OnlyPermittedNodes ==
    (Called /\ outcome.kind = "value") => (Tree.ok /\ AllNodes(PermittedNode))

SameFailure(o1, o2) ==
    o1.kind = o2.kind /\ o1.exc = o2.exc /\ o1.msg = o2.msg /\ o1.arg = o2.arg

IsZeroDivision(o) == o.kind = "error" /\ o.exc = "ZeroDivisionError"

\* A Div node whose operands both return and whose right operand is zero.
DividesByZero(n) ==
    /\ n.k = "BinOp" /\ n.op = "Div"
    /\ Eval(n.left, Env).kind = "value"
    /\ Eval(n.right, Env).kind = "value"
    /\ Eval(n.right, Env).val.num = 0

RECURSIVE RefPowFrom(_, _, _)
RefPowFrom(b, e, acc) == IF e = 0 \/ acc > MaxAbs THEN acc ELSE RefPowFrom(b, e - 1, acc * b)
RefPow(b, e) == IF e = 0 THEN 1 ELSE IF b <= 1 THEN b ELSE RefPowFrom(b, e, 1)

Chain(op) == input.form = "flat3" /\ input.op1 = op /\ input.op2 = op

ReturnsInt(n) == outcome.kind = "value" /\ outcome.val.ty = "int" /\ outcome.val.num = n

RefApply(op, l, r) ==
    IF l[2] = 0 \/ r[2] = 0 THEN <<0, 0>>
    ELSE CASE op = "Add"  -> <<l[1] * r[2] + r[1] * l[2], l[2] * r[2]>>
           [] op = "Sub"  -> <<l[1] * r[2] - r[1] * l[2], l[2] * r[2]>>
           [] op = "Mult" -> <<l[1] * r[1], l[2] * r[2]>>
           [] op = "Div"  -> <<l[1] * r[2], l[2] * r[1]>>

BindsTighter(op) == op \in {"Mult", "Div"}

\* The value of a composed input by the conventional rules: * and / before + and -,
\* equal precedence from the left, parentheses first.
Conventional(in) ==
    LET a == <<in.a, 1>>
        b == <<in.b, 1>>
        c == <<in.c, 1>>
    IN CASE in.form = "flat2" -> RefApply(in.op1, a, b)
         [] in.form = "flat3" ->
              IF BindsTighter(in.op2) /\ ~BindsTighter(in.op1)
              THEN RefApply(in.op1, a, RefApply(in.op2, b, c))
              ELSE RefApply(in.op2, RefApply(in.op1, a, b), c)
         [] in.form = "left"  -> RefApply(in.op2, RefApply(in.op1, a, b), c)
         [] in.form = "right" -> RefApply(in.op1, a, RefApply(in.op2, b, c))

Arithmetic ==
    /\ input.form \in {"flat2", "flat3", "left", "right"}
    /\ input.op1 \in ArithOps
    /\ input.form = "flat2" \/ input.op2 \in ArithOps

ReturnsFraction(f) ==
    outcome.kind = "value" /\ outcome.val.num * f[2] = f[1] * outcome.val.den

Bound(id) == id \in DOMAIN Env

NamesUndefined(o, id) ==
    /\ o.kind = "error" /\ o.exc = "ValueError"
    /\ o.msg = "UndefinedVariable" /\ o.arg = id

\* What a reference to id must evaluate to.
LooksUp(o, id) ==
    IF Bound(id) THEN o.kind = "value" /\ o.val = Env[id] ELSE NamesUndefined(o, id)

XPlusOne == <<"x", "+", "1">>

\* C5: a variable reference evaluates to the value bound to exactly that name in the
\* supplied environment; when the name has no binding (also when no environment is
\* supplied) the call fails with an undefined-variable failure naming that variable:
\* "x+1" with x = 4.0 returns 5.0, and "x+1" without x fails naming x.
C5_VariableLookup ==
    Called =>
      /\ (Tree.ok /\ Tree.node.k = "Name") => LooksUp(outcome, Tree.node.id)
      /\ AllNodes(LAMBDA n : n.k = "Name" => LooksUp(Eval(n, Env), n.id))
      /\ arg_expression = XPlusOne =>
           IF Bound(X)
           THEN /\ outcome.kind = "value"
                /\ outcome.val.num = Env[X].num + Env[X].den
                /\ outcome.val.den = Env[X].den
                /\ outcome.val.ty = (IF Env[X].ty = "float" THEN "float" ELSE "int")
           ELSE NamesUndefined(outcome, X)
      /\ NamesUndefined(outcome, outcome.arg) => ~Bound(outcome.arg)

C5_Witness ==
    /\ Called
    /\ arg_expression = XPlusOne
    /\ arg_variables = Given([n \in {X} |-> FloatVal(4, 1, TRUE)])
    /\ outcome.kind = "value" /\ outcome.val = FloatVal(5, 1, TRUE)

IsPrefix(p, t) == Len(p) <= Len(t) /\ SubSeq(t, 1, Len(p)) = p

\* The order of evaluation at one binary operation with an allowed operator.
LeftBeforeRight(n) ==
    LET whole == Eval(n, Env)
        left  == Eval(n.left, Env)
        right == Eval(n.right, Env)
    IN /\ IsPrefix(<<Visit(n)>> \o left.trace, whole.trace)
       /\ left.kind = "error" =>
            /\ whole.trace = <<Visit(n)>> \o left.trace
            /\ SameFailure(whole, left)
       /\ left.kind = "value" => whole.trace = <<Visit(n)>> \o left.trace \o right.trace
       /\ (left.kind = "value" /\ right.kind = "error") => SameFailure(whole, right)

\* C6: failures are reported in left-to-right, depth-first order: at every binary
\* operation the left operand is fully evaluated before the right one, and if the
\* left operand fails the right one is never evaluated and the failure of the call
\* is the left operand's ("a+b" with neither bound fails naming a).
C6_LeftFailureFirst ==
    Called =>
      /\ AllNodes(LAMBDA n : (n.k = "BinOp" /\ n.op \in AllowedOperators) => LeftBeforeRight(n))
      /\ (Tree.ok /\ Tree.node.k = "BinOp" /\ Tree.node.op \in AllowedOperators
            /\ Eval(Tree.node.left, Env).kind = "error") =>
           /\ SameFailure(outcome, Eval(Tree.node.left, Env))
           /\ outcome.trace = <<Visit(Tree.node)>> \o Eval(Tree.node.left, Env).trace

C6_Witness ==
    /\ Called
    /\ arg_expression = <<"a", "+", "b">>
    /\ ~Bound(<<"a">>) /\ ~Bound(<<"b">>)
    /\ NamesUndefined(outcome, <<"a">>)
    /\ outcome.trace = <<<<"BinOp", "Add">>, <<"a">>>>
----------------------------------------------------------------------------
(* A caller that calls safe_eval again and again, remembering one call. *)

RepeatTexts ==
    {<<"2", "+", "3">>,   \* 2+3
     <<"x", "+", "1">>,   \* x+1
     <<"1", "/", "x">>,   \* 1/x
     <<"x", "+">>,        \* x+
     <<"a", "+", "b">>}   \* a+b

RepeatEnvironments ==
    {NoVariables, Given(X :> FloatVal(4, 1, TRUE)), Given(X :> IntVal(0))}

RepeatInit ==
    /\ EvalIdle /\ GuiIdle /\ GraphIdle /\ MainIdle

\* The caller writes the arguments of its next call.
SetArguments(expression, variables) ==
    /\ ~pending
    /\ arg_expression' = expression
    /\ arg_variables' = variables
    /\ pending' = TRUE
    /\ UNCHANGED <<input, outcome, remembered, guiVars, graphVars, mainVars>>

\* The caller keeps the call just made, to compare later calls against.
Remember ==
    /\ ~pending
    /\ outcome.kind # "none"
    /\ ~remembered.set
    /\ remembered' = [set |-> TRUE, expression |-> arg_expression,
                      variables |-> arg_variables, outcome |-> outcome,
                      interleaved |-> FALSE]
    /\ UNCHANGED <<arg_expression, arg_variables, input, pending, outcome,
                   guiVars, graphVars, mainVars>>

RepeatNext ==
    \/ \E e \in RepeatTexts, v \in RepeatEnvironments : SetArguments(e, v)
    \/ SafeEvalCall
    \/ Remember

SpecRepeat == RepeatInit /\ [][RepeatNext]_vars

SameCallAsRemembered ==
    /\ remembered.set
    /\ ~pending
    /\ arg_expression = remembered.expression
    /\ arg_variables = remembered.variables

----------------------------------------------------------------------------
(* CalculatorApp: the handlers of the buttons and of the keys. *)

\* Most symbols one run appends to the field between two clears.
MaxTyped == 4

ErrorText == <<"E", "r", "r", "o", "r">>

\* The characters _on_keypress appends.
KeypadChars == {"0", "1", "2", "3", "4", "5", "6", "7", "8", "9", ".", "+", "-", "*", "/"}

\* char in "0123456789.+-*/": a substring test, which the empty string passes.
InKeypadString(char) == char = <<>> \/ (Len(char) = 1 /\ char[1] \in KeypadChars)

KeyEvent(char, keysym) == [char |-> char, keysym |-> keysym]
Lower(keysym) == IF keysym = "G" THEN "g" ELSE keysym

\* The buttons and keys pressed in the runs explored ("CR" and "ESC" stand for the
\* control characters Return and Escape deliver as event.char).
PressedButtons == {"1", "0", ".", "+", "/", "C", "="}
PressedKeys ==
    {KeyEvent(<<"1">>, "1"), KeyEvent(<<"/">>, "slash"), KeyEvent(<<>>, "Shift_L"),
     KeyEvent(<<"CR">>, "Return"), KeyEvent(<<"ESC">>, "Escape"), KeyEvent(<<"a">>, "a")}
GraphKeys == {KeyEvent(<<"g">>, "g"), KeyEvent(<<"G">>, "G")}

\* A handler that writes nothing with the text the field shows when the call fails.
FieldAfterBlankOnFailure(o) == IF o.kind = "value" THEN Str(o.val).s ELSE <<>>

\* self.expression_var.set(str(result)), or self.expression_var.set("Error")
FieldAfter(o) == IF o.kind = "value" THEN Str(o.val).s ELSE ErrorText

Writable(o) == o.kind = "error" \/ (o.kind = "value" /\ Str(o.val).ok)

\* current = self.expression_var.get(); self.expression_var.set(current + symbol)
AppendToField(handler, symbol) ==
    /\ presses + Len(symbol) <= MaxTyped
    /\ expression_var' = expression_var \o symbol
    /\ presses' = presses + Len(symbol)
    /\ last' = handler
    /\ expr' = <<>>
    /\ UNCHANGED <<evalVars, graphVars>>

WriteToField(o) ==
    /\ Writable(o)
    /\ expression_var' = FieldAfter(o)

\* expr = self.expression_var.get(); result = safe_eval(expr); set the field
EvaluateFrom(handler) ==
    /\ expr' = expression_var
    /\ WriteToField(SafeEval(expression_var, NoVariables))
    /\ last' = "_evaluate"
    /\ UNCHANGED <<presses, evalVars, graphVars>>

ClearFrom(handler) ==
    /\ expression_var' = <<>>
    /\ presses' = 0
    /\ last' = "_clear"
    /\ expr' = <<>>
    /\ UNCHANGED <<evalVars, graphVars>>

\* expr = self.expression_var.get(); xs = [...]; ys = []
GraphExpressionFrom(handler) ==
    /\ gexpr' = expression_var
    /\ gi' = 1
    /\ ys' = <<>>
    /\ samples' = <<>>
    /\ shown' = 0
    /\ plotted' = <<>>
    /\ gpc' = "loop"
    /\ UNCHANGED <<guiVars, evalVars>>

NothingFrom(handler) == UNCHANGED <<guiVars, evalVars, graphVars>>

OnButtonPress(symbol) ==
    /\ gpc = "idle"
    /\ IF symbol = "C" THEN ClearFrom("_on_button_press")
       ELSE IF symbol = "=" THEN EvaluateFrom("_on_button_press")
       ELSE AppendToField("_on_button_press", <<symbol>>)
    /\ UNCHANGED mainVars

OnKeypress(event) ==
    /\ gpc = "idle"
    /\ IF InKeypadString(event.char) THEN AppendToField("_on_keypress", event.char)
       ELSE IF event.keysym = "Return" THEN EvaluateFrom("_on_keypress")
       ELSE IF event.keysym = "Escape" THEN ClearFrom("_on_keypress")
       ELSE IF Lower(event.keysym) = "g" THEN GraphExpressionFrom("_on_keypress")
       ELSE NothingFrom("_on_keypress")
    /\ UNCHANGED mainVars

GuiInit == GuiIdle /\ GraphIdle /\ EvalIdle /\ MainIdle

GuiNext ==
    \/ \E symbol \in PressedButtons : OnButtonPress(symbol)
    \/ \E event \in PressedKeys : OnKeypress(event)

SpecGui == GuiInit /\ [][GuiNext]_vars

ShowsError(text) == IsPrefix(ErrorText, text)

\* C10: in the GUI "Error" is an absorbing display state until cleared: once a failed
\* evaluation has put "Error" in the field, any sequence of appended calculator
\* symbols followed by '=' leaves the field exactly "Error" again; only the clear
\* action empties the field, and from the empty field a valid expression evaluates
\* to its result.
C10_ErrorUntilCleared ==
    /\ (last = "_evaluate" /\ ShowsError(expr)) => expression_var = ErrorText
    /\ (last = "_evaluate" /\ expression_var = <<>>) => FALSE
    /\ (last \in {"_on_button_press", "_on_keypress"} /\ presses > 0) => expression_var # <<>>
    /\ (last = "_evaluate" /\ expr = <<"1", "+", "1">>) => expression_var = <<"2">>

C10_Witness ==
    /\ last = "_evaluate"
    /\ ShowsError(expr)
    /\ Len(expr) > Len(ErrorText)
    /\ expression_var = ErrorText
----------------------------------------------------------------------------
(* CalculatorApp._graph_expression, one step per sample. *)

\* xs = [x / 10 for x in range(-100, 101)]
RangeStart == -100
RangeStop == 101
XsLen == RangeStop - RangeStart
Xs(i) == PyTrueDiv(IntVal(RangeStart + i - 1), IntVal(10)).v

\* The dict of one sample: {"x": x}
SampleVariables(x) == Given(X :> x)

\* A loop that swallows the exception of a sample and goes on.
AbortsPassNever(o) == FALSE

\* except Exception: showerror(...); return
AbortsPass(o) == o.kind = "error"

\* One turn of the loop on the outcome o of sample gi.
TakeSample(o) ==
    /\ o.kind # "range"
    /\ IF AbortsPass(o)
       THEN /\ shown' = shown + 1
            /\ gpc' = "idle"
            /\ UNCHANGED <<ys, gi>>
       ELSE /\ ys' = Append(ys, o.val)
            /\ gi' = gi + 1
            /\ UNCHANGED <<shown, gpc>>

\* The "Graph" button: command=self._graph_expression
GraphButton ==
    /\ gpc = "idle"
    /\ GraphExpressionFrom("Graph")
    /\ UNCHANGED mainVars

\* for x in xs: ys.append(safe_eval(expr, {"x": x}))
GraphSample ==
    /\ gpc = "loop"
    /\ gi <= XsLen
    /\ samples' = Append(samples, SampleVariables(Xs(gi)))
    /\ TakeSample(SafeEval(gexpr, SampleVariables(Xs(gi))))
    /\ UNCHANGED <<gexpr, plotted, guiVars, evalVars, mainVars>>

\* plt.plot(xs, ys); plt.show(); return
GraphPlot ==
    /\ gpc = "loop"
    /\ gi > XsLen
    /\ plotted' = <<[xs |-> [i \in 1..XsLen |-> Xs(i)], ys |-> ys]>>
    /\ gpc' = "idle"
    /\ UNCHANGED <<gexpr, gi, ys, samples, shown, guiVars, evalVars, mainVars>>

\* The texts in the field when a graph is asked for (typed into the entry).
GraphTexts ==
    {<<"x">>,                                   \* x
     <<"x", "*", "x">>,                         \* x*x
     <<"x", "/", "2">>,                         \* x/2
     <<"2">>,                                   \* 2
     <<"1", "/", "x">>,                         \* 1/x
     <<"1", "/", "(", "x", "-", "1", ")">>,     \* 1/(x-1)
     <<"1", "/", "(", "x", "-", "1", "0", ")">>, \* 1/(x-10)
     <<"1", "/", "(", "x", "+", "1", "0", ")">>, \* 1/(x+10)
     <<"y">>,                                   \* y
     <<"x", "+", "y">>,                         \* x+y
     <<"x", "+">>,                              \* x+
     <<"1", "/", "0">>,                         \* 1/0
     <<>>}                                      \* (empty)

GraphInit ==
    /\ expression_var \in GraphTexts
    /\ presses = 0
    /\ last = "__init__"
    /\ expr = <<>>
    /\ GraphIdle /\ EvalIdle /\ MainIdle

GraphNext ==
    \/ GraphButton
    \/ \E event \in GraphKeys : OnKeypress(event)
    \/ GraphSample
    \/ GraphPlot

SpecGraph == GraphInit /\ [][GraphNext]_vars

SampleSucceeds(k) == SafeEval(gexpr, samples[k]).kind = "value"
PassOver == gpc = "idle" /\ samples # <<>>

\* C8: graphing evaluates the expression once per sample point with only x bound, in
\* increasing order over the 201 points from -10 to 10 in steps of 0.1; the first
\* sample that fails aborts the pass: exactly one error is shown, no later sample is
\* evaluated and no plot is drawn; a plot is drawn only after all 201 have succeeded.
C8_FirstFailureAbortsPass ==
    /\ XsLen = 201 /\ Xs(1) = FloatVal(-10, 1, TRUE) /\ Xs(XsLen) = FloatVal(10, 1, TRUE)
    /\ Len(samples) <= XsLen
    /\ \A k \in 1..Len(samples) : samples[k] = SampleVariables(FloatVal(k - 101, 10, TRUE))
    /\ Len(samples) >= 2 => SampleSucceeds(Len(samples) - 1)
    /\ shown <= 1
    /\ shown = 1 <=> (samples # <<>> /\ ~SampleSucceeds(Len(samples)))
    /\ shown = 1 => (plotted = <<>> /\ gpc = "idle")
    /\ Len(ys) = Len(samples) - shown
    /\ plotted # <<>> =>
         /\ Len(samples) = XsLen /\ shown = 0
         /\ Len(plotted[1].ys) = XsLen /\ Len(plotted[1].xs) = XsLen
    /\ PassOver => (shown = 1 \/ plotted # <<>>)

C8_Witness ==
    /\ PassOver
    /\ gexpr = <<"1", "/", "x">>
    /\ Len(samples) = 101
    /\ shown = 1
    /\ plotted = <<>>

----------------------------------------------------------------------------
(* main: the command line. *)

Absent == [given |-> FALSE, text |-> <<>>]
Argument(text) == [given |-> TRUE, text |-> text]

\* The values of args.expression in the runs explored.
CliArguments ==
    {Absent} \cup {Argument(t) : t \in WrittenTexts}
             \cup {Argument(Render(in)) : in \in {c \in ComposedInputs : c.form = "flat2"}}

\* if args.expression: a None and an empty string are both false
IsTruthy(a) == a.given /\ a.text # <<>>

\* print(result), or print(f"Error: {exc}", file=sys.stderr); sys.exit(1)
Report(o) ==
    /\ Writable(o)
    /\ IF o.kind = "value"
       THEN /\ stdout' = <<Str(o.val).s>>
            /\ stderr' = <<>>
            /\ exit_status' = 0
       ELSE /\ stdout' = <<>>
            /\ stderr' = <<[prefix |-> "Error: ", exc |-> o.exc, msg |-> o.msg, arg |-> o.arg]>>
            /\ exit_status' = 1

CliInit ==
    /\ args_expression \in CliArguments
    /\ mpc = "start"
    /\ stdout = <<>>
    /\ stderr = <<>>
    /\ exit_status = 0
    /\ gui_started = FALSE
    /\ EvalIdle /\ GuiIdle /\ GraphIdle

\* The branch of main taken with an expression: evaluate, report, exit.
MainExpression ==
    /\ mpc = "start"
    /\ IsTruthy(args_expression)
    /\ Report(SafeEval(args_expression.text, NoVariables))
    /\ mpc' = "exited"
    /\ UNCHANGED <<args_expression, gui_started, evalVars, guiVars, graphVars>>

\* The other branch: app = CalculatorApp(); app.run()
MainGui ==
    /\ mpc = "start"
    /\ ~IsTruthy(args_expression)
    /\ gui_started' = TRUE
    /\ mpc' = "mainloop"
    /\ UNCHANGED <<args_expression, stdout, stderr, exit_status, evalVars, guiVars, graphVars>>

CliNext == MainExpression \/ MainGui

SpecCli == CliInit /\ [][CliNext]_vars

\* C9: whenever the program is invoked with the --expression argument it evaluates
\* that expression without launching the GUI and ends in exactly one of two ways:
\* the result is printed and the process exits normally, or an error message is
\* printed and the process exits with status 1.
C9_ExpressionNeverLaunchesGui ==
    (args_expression.given /\ mpc # "start") =>
      /\ ~gui_started
      /\ mpc = "exited"
      /\ \/ stdout # <<>> /\ stderr = <<>> /\ exit_status = 0
         \/ stdout = <<>> /\ stderr # <<>> /\ exit_status = 1

====
